---- MODULE Spec2Model ----
(***************************************************************************)
(* Model of content_script.js: the caption discovery pipeline of the       *)
(* extension (player-metadata resolver, caption list, track fetcher,       *)
(* transcript aggregator).                                                 *)
(*                                                                         *)
(* JavaScript runs each task to completion.  A position of the async       *)
(* functions (pc) is either a suspension point (an await whose promise is  *)
(* settled by the network, by a window message or by the timer) or a basic *)
(* block of synchronous code.  While pc is a basic block (Running) no      *)
(* event of the environment is enabled, so the blocks between two awaits   *)
(* run without interleaving, as they do in the browser.                    *)
(*                                                                         *)
(* Spec is the content script serving one getTranscript request, LiveSpec  *)
(* the same under a fair scheduler.  SpecExtract, SpecVTT and SpecBody     *)
(* apply extractJSONFromScriptText, parseVTT and the body handling of      *)
(* fetchCaptionText to bounded inputs.  SpecPopup is the popup script's    *)
(* fetch button.                                                           *)
(***************************************************************************)
EXTENDS Naturals, Sequences, FiniteSets

\* ------------------------------------------------------------------ bounds
MaxTracks  == 2   \* caption tracks declared by the player metadata
MaxScripts == 2   \* <script> elements in the host page
MaxInbox   == 2   \* window messages queued for the listener at one time
MaxCues    == 1   \* cues a parser extracts from one response body
MaxClicks  == 3   \* clicks on the popup's fetch button
MaxText    == 6   \* characters of a script text handed to the extractor
MaxVttCues == 2   \* cues of a WebVTT document
MaxPayload == 2   \* text lines of one WebVTT cue

\* ------------------------------------------------------- program constants
TimeoutMs == 1000      \* setTimeout(..., 1000)
RawCap    == 200000    \* raw.length < 200000

\* error messages (the spec's taxonomy names, the code's messages)
NoVideoId         == "No video id found on this page"
MetadataNotFound  == "getPlayerResponse error: ytInitialPlayerResponse not found"
NoCaptionTracks   == "No caption tracks found in player response"
NoCaptionsFound   == "No captions found for this video."
NoCaptionsFetched == "No captions could be fetched or parsed. See console logs for details."
NoTrackUrl        == "No track URL available for "
TrackFetchFailed  == "Failed to fetch/parse caption for lang="
TransportError    == "TypeError: Failed to fetch"

\* ------------------------------------------------------------------- data
\* A URL: whether it is present (non-null, non-empty), its text, and whether
\* the text contains '?'.
Url(p, q) == [present |-> TRUE, path |-> p, query |-> q]
NullUrl   == [present |-> FALSE, path |-> "", query |-> FALSE]

\* Raw captionTracks entries the host page may declare.
RawTracks ==
  { [languageCode |-> "en", simpleText |-> "English", baseUrl |-> Url("tt/en", TRUE)],
    [languageCode |-> "fr", simpleText |-> "",        baseUrl |-> Url("tt/fr", FALSE)],
    [languageCode |-> "de", simpleText |-> "",        baseUrl |-> NullUrl] }

SeqsUpTo(S, n) == UNION { [1..k -> S] : k \in 0..n }

\* The player responses a page may expose: captionTracks in declaration order.
PlayerResponses == [captionTracks : SeqsUpTo(RawTracks, MaxTracks)]

\* Text classes of a <script> element, as the tier-3 scan distinguishes them.
\*   empty   : no textContent
\*   other   : text without the variable name
\*   nobrace : names the variable, but the extractor returns null
\*   badjson : an object literal is extracted, JSON.parse throws
\*   good    : an object literal is extracted and parses
ScriptKinds == {"empty", "other", "nobrace", "badjson", "good"}

\* The relay fragment's own text names the variable; the first '{' after the
\* name opens the catch block, which balances and is no JSON.
InjectedScript == "badjson"

\* What happens to the injected fragment in the page's context.
RelayKinds == {"blocked", "payload", "null"}

Message(src, tag, pl) == [source |-> src, tagged |-> tag, payload |-> pl]
ForeignMessages ==
  { Message("other", TRUE, "payload"),     \* marker, but another source
    Message("window", FALSE, "payload") }  \* page window, but no marker

\* A response body, by what the sniffing tests and the parsers make of it.
\* blank is the empty-body test (!text || text.trim().length === 0): a blank
\* text has nothing to sniff or to parse.
BlankBody ==
  [ blank |-> TRUE, sniffVTT |-> FALSE, nVTT |-> 0, sniffXML |-> FALSE, nXML |-> 0,
    sniffJSON |-> FALSE, nJSON |-> 0, rawLen |-> 0 ]
Bodies ==
  { BlankBody } \cup
  [ blank     : {FALSE},
    sniffVTT  : BOOLEAN,  nVTT  : 0..MaxCues,
    sniffXML  : BOOLEAN,  nXML  : 0..MaxCues,
    sniffJSON : BOOLEAN,  nJSON : 0..MaxCues,
    rawLen    : {0, 1, RawCap} ]

\* ------------------------------------------------------------------ state
VARIABLES
  dom,            \* script elements this content script has put in the document
  listener,       \* onMessage is registered on window
  timer,          \* "none" | "pending" | "fired", and the delay it was set with
  inbox,          \* message events queued for onMessage, oldest first
  settled,        \* the tier-2 promise: "none" | "pending" | "message" | "timeout"
  injected,       \* the value it resolved with: "unset" | "payload" | "null"
  pc,             \* position of getBestTranscript and its callees
  videoId,        \* getVideoId() has a value
  playerResponse, \* the resolved player response
  scripts, scan,  \* tier 3: snapshot of the script elements, scan position
  tracks,         \* fetchCaptionList's result
  fetched,        \* getBestTranscript's fetched[]
  ti, ci,         \* track and candidate loop positions (1-based)
  inflight,       \* network requests issued and not settled
  txt,            \* value returned by fetchCaptionText
  thrown,         \* exception in flight
  ret,            \* how getBestTranscript settled
  tierLog,        \* history: resolver tiers started and how each ended
  reqs,           \* history: candidate URLs requested for the current track
  lastOut,        \* history: outcome of the last candidate that was processed
  trackLog,       \* history: fetchCaptionText calls and how each ended
  channel,        \* the request's response channel: "none" | "open" | "closed"
  responses,      \* what sendResponse was called with, in order
  arg, result,    \* a pure function applied on its own: its input, the value it returned
  handlers,       \* popup: position of each run of the fetch button's click handler
  spinner,        \* popup: spinner.style.display
  output,         \* popup: output.value
  alerts          \* popup: number of alert() dialogs shown

vars == << dom, listener, timer, inbox, settled, injected, pc, videoId,
           playerResponse, scripts, scan, tracks, fetched, ti, ci, inflight, txt,
           thrown, ret, tierLog, reqs, lastOut, trackLog, channel, responses,
           arg, result, handlers, spinner, output, alerts >>

resolverVars == << dom, listener, timer, inbox, settled, injected >>
scanVars     == << scripts, scan >>
loopVars     == << tracks, fetched, ti, ci, inflight, txt, thrown >>
histVars     == << tierLog, reqs, lastOut, trackLog >>
endpointVars == << channel, responses >>
funVars      == << arg, result >>
popupVars    == << handlers, spinner, output, alerts >>
restVars     == << endpointVars, funVars, popupVars >>
pipelineVars == << resolverVars, scanVars, loopVars, histVars, pc, videoId,
                   playerResponse, ret >>

NoTxt    == [cues |-> 0, raw |-> 0]
NoThrown == [message |-> "", lang |-> ""]
Pending  == [kind |-> "pending"]
Failure(msg) == [kind |-> "error", message |-> msg]
NoResponse == [captionTracks |-> << >>]

Blocks == { "gpr", "inject", "relayDone", "scan", "fcl", "gbtTracks", "for", "fct",
            "cand", "candCatch", "catch", "gotText", "agg" }
Running   == pc \in Blocks
Suspended == ~Running

\* The content script is loaded and its runtime listener is registered.
PipelineInit ==
  /\ dom = << >>
  /\ listener = FALSE
  /\ timer = [state |-> "none", ms |-> 0]
  /\ inbox = << >>
  /\ settled = "none"
  /\ injected = "unset"
  /\ pc = "listening"
  /\ videoId = FALSE
  /\ playerResponse = NoResponse
  /\ scripts = << >>
  /\ scan = 0
  /\ tracks = << >>
  /\ fetched = << >>
  /\ ti = 0
  /\ ci = 0
  /\ inflight = {}
  /\ txt = NoTxt
  /\ thrown = NoThrown
  /\ ret = Pending
  /\ tierLog = << >>
  /\ reqs = << >>
  /\ lastOut = "none"
  /\ trackLog = << >>

EndpointInit == channel = "none" /\ responses = << >>

\* No pure function is being applied on its own.
NoArg    == [fn |-> "none"]
NoResult == [called |-> FALSE]
FunInit  == arg = NoArg /\ result = NoResult

\* The popup after DOMContentLoaded: no click yet, the spinner hidden, the
\* output cleared.
PopupInit ==
  /\ handlers = [ i \in 1..MaxClicks |-> "unused" ]
  /\ spinner = "none"
  /\ output = ""
  /\ alerts = 0

Init == PipelineInit /\ EndpointInit /\ FunInit /\ PopupInit

\* ------------------------------------------------ player-metadata resolver
\* getVideoId: the 'v' parameter of location.search, null when absent.
getVideoId(v) == v

\* (document.head || document.documentElement).appendChild(script)
appendChild(d, s) == Append(d, s)

\* script.parentNode.removeChild(script): the fragment is the last child.
\* Faulty variant: the fragment is left in the document.
removeChild_leaves(d, s) == d
removeChild(d, s) == IF d # << >> /\ d[Len(d)] = s THEN SubSeq(d, 1, Len(d) - 1) ELSE d

\* The fragment runs in the page's context when it is appended: it posts the
\* tagged message with the page's value or null, unless the page blocks it.
pagePosts(q, r) ==
  IF r = "blocked" THEN q ELSE Append(q, Message("window", TRUE, r))

\* onMessage's test: the page window as source, and the private marker.
\* Faulty variant: the source of the message is not tested.
onMessageAccepts_anySource(m) == m.tagged
onMessageAccepts(m) == m.source = "window" /\ m.tagged

\* d.payload || null
payloadOrNull(m) == m.payload

\* if (injected)
injectedFound(v) == v = "payload"

\* getBestTranscript is called: getVideoId, then fetchCaptionList calls
\* getPlayerResponse.
getBestTranscript ==
  /\ pc = "idle"
  /\ UNCHANGED restVars
  /\ \E v \in BOOLEAN :
       /\ videoId' = getVideoId(v)
       /\ IF ~getVideoId(v)
            THEN pc' = "failed" /\ ret' = Failure(NoVideoId)
            ELSE pc' = "gpr" /\ ret' = ret
  /\ UNCHANGED << resolverVars, scanVars, loopVars, histVars, playerResponse >>

\* Tier 1: window.ytInitialPlayerResponse read from the content script's world.
\* Faulty variant: tier 1 finds the global but does not return.
gprDirect_noReturn ==
  /\ pc = "gpr"
  /\ UNCHANGED restVars
  /\ \E w \in BOOLEAN :
       /\ playerResponse' = playerResponse
       /\ pc' = "inject"
       /\ tierLog' = tierLog \o << "t1", IF w THEN "t1ok" ELSE "t1fail" >>
  /\ UNCHANGED << resolverVars, scanVars, loopVars, videoId, ret, reqs, lastOut,
                  trackLog >>

gprDirect ==
  /\ pc = "gpr"
  /\ UNCHANGED restVars
  /\ \E w \in BOOLEAN, pr \in PlayerResponses :
       IF w
         THEN /\ playerResponse' = pr
              /\ pc' = "fcl"
              /\ tierLog' = tierLog \o << "t1", "t1ok" >>
         ELSE /\ playerResponse' = playerResponse
              /\ pc' = "inject"
              /\ tierLog' = tierLog \o << "t1", "t1fail" >>
  /\ UNCHANGED << resolverVars, scanVars, loopVars, videoId, ret, reqs, lastOut,
                  trackLog >>

\* Tier 2, up to the await: register the listener, inject the fragment and
\* remove it, start the timer.
\* Faulty variant: the safety timer is not started.
gprInject_noTimer ==
  /\ pc = "inject"
  /\ UNCHANGED restVars
  /\ listener' = TRUE
  /\ \E r \in RelayKinds : inbox' = pagePosts(inbox, r)
  /\ dom' = removeChild(appendChild(dom, InjectedScript), InjectedScript)
  /\ timer' = timer
  /\ settled' = "pending"
  /\ pc' = "relayWait"
  /\ tierLog' = Append(tierLog, "t2")
  /\ UNCHANGED << injected, scanVars, loopVars, videoId, playerResponse, ret,
                  reqs, lastOut, trackLog >>

gprInject ==
  /\ pc = "inject"
  /\ UNCHANGED restVars
  /\ listener' = TRUE
  /\ \E r \in RelayKinds : inbox' = pagePosts(inbox, r)
  /\ dom' = removeChild(appendChild(dom, InjectedScript), InjectedScript)
  /\ timer' = [state |-> "pending", ms |-> TimeoutMs]
  /\ settled' = "pending"
  /\ pc' = "relayWait"
  /\ tierLog' = Append(tierLog, "t2")
  /\ UNCHANGED << injected, scanVars, loopVars, videoId, playerResponse, ret,
                  reqs, lastOut, trackLog >>

\* Other code posts a window message while the listener is registered.
PostForeign ==
  /\ Suspended
  /\ UNCHANGED restVars
  /\ listener
  /\ Len(inbox) < MaxInbox
  /\ \E m \in ForeignMessages : inbox' = Append(inbox, m)
  /\ UNCHANGED << dom, listener, timer, settled, injected, pc, videoId, playerResponse,
                  scanVars, loopVars, ret, histVars >>

\* The browser dispatches the oldest message event to onMessage.  Once the
\* listener is removed no queued event reaches it any more.
\* Faulty variant: an accepted message resolves, the listener stays registered.
Dispatch_keepsListener ==
  /\ Suspended
  /\ UNCHANGED restVars
  /\ listener
  /\ inbox # << >>
  /\ LET m == Head(inbox) IN
       IF onMessageAccepts(m)
         THEN /\ listener' = listener
              /\ inbox' = Tail(inbox)
              /\ IF settled = "pending"
                   THEN /\ settled' = "message"
                        /\ injected' = payloadOrNull(m)
                        /\ pc' = "relayDone"
                   ELSE UNCHANGED << settled, injected, pc >>
         ELSE /\ inbox' = Tail(inbox)
              /\ UNCHANGED << listener, settled, injected, pc >>
  /\ UNCHANGED << dom, timer, videoId, playerResponse, scanVars, loopVars, ret,
                  histVars >>

Dispatch ==
  /\ Suspended
  /\ UNCHANGED restVars
  /\ listener
  /\ inbox # << >>
  /\ LET m == Head(inbox) IN
       IF onMessageAccepts(m)
         THEN /\ listener' = FALSE
              /\ inbox' = << >>
              /\ IF settled = "pending"
                   THEN /\ settled' = "message"
                        /\ injected' = payloadOrNull(m)
                        /\ pc' = "relayDone"
                   ELSE UNCHANGED << settled, injected, pc >>
         ELSE /\ inbox' = Tail(inbox)
              /\ UNCHANGED << listener, settled, injected, pc >>
  /\ UNCHANGED << dom, timer, videoId, playerResponse, scanVars, loopVars, ret,
                  histVars >>

\* The timer's callback: remove the listener, resolve(null).  Resolving a
\* promise that is already resolved does nothing.
\* Faulty variant: the timer rejects the wait instead of resolving null.
Timeout_rejects ==
  /\ Suspended
  /\ UNCHANGED restVars
  /\ timer.state = "pending"
  /\ timer' = [timer EXCEPT !.state = "fired"]
  /\ listener' = FALSE
  /\ inbox' = << >>
  /\ IF settled = "pending"
       THEN /\ settled' = "timeout"
            /\ injected' = injected
            /\ pc' = "failed"
            /\ ret' = Failure("getPlayerResponse error: timeout")
       ELSE UNCHANGED << settled, injected, pc, ret >>
  /\ UNCHANGED << dom, videoId, playerResponse, scanVars, loopVars, histVars >>

Timeout ==
  /\ Suspended
  /\ UNCHANGED restVars
  /\ timer.state = "pending"
  /\ timer' = [timer EXCEPT !.state = "fired"]
  /\ listener' = FALSE
  /\ inbox' = << >>
  /\ IF settled = "pending"
       THEN /\ settled' = "timeout"
            /\ injected' = "null"
            /\ pc' = "relayDone"
       ELSE UNCHANGED << settled, injected, pc >>
  /\ UNCHANGED << dom, videoId, playerResponse, scanVars, loopVars, ret, histVars >>

\* After the await: tier 2 succeeded, or tier 3 starts on a snapshot of the
\* document's script elements (the page's own, then any this script left).
gprRelayDone ==
  /\ pc = "relayDone"
  /\ UNCHANGED restVars
  /\ IF injectedFound(injected)
       THEN /\ \E pr \in PlayerResponses : playerResponse' = pr
            /\ pc' = "fcl"
            /\ tierLog' = Append(tierLog, "t2ok")
            /\ UNCHANGED scanVars
       ELSE /\ playerResponse' = playerResponse
            /\ \E page \in SeqsUpTo(ScriptKinds, MaxScripts) : scripts' = page \o dom
            /\ scan' = 1
            /\ pc' = "scan"
            /\ tierLog' = tierLog \o << "t2fail", "t3" >>
  /\ UNCHANGED << resolverVars, loopVars, videoId, ret, reqs, lastOut, trackLog >>

\* Tier 3, one script element per step; past the last one the resolver throws
\* and its catch wraps the error.
gprScan ==
  /\ pc = "scan"
  /\ UNCHANGED restVars
  /\ IF scan > Len(scripts)
       THEN /\ pc' = "failed"
            /\ ret' = Failure(MetadataNotFound)
            /\ tierLog' = Append(tierLog, "t3fail")
            /\ scripts' = << >>
            /\ scan' = 0
            /\ playerResponse' = playerResponse
       ELSE IF scripts[scan] = "good"
         THEN /\ \E pr \in PlayerResponses : playerResponse' = pr
              /\ pc' = "fcl"
              /\ tierLog' = Append(tierLog, "t3ok")
              /\ scripts' = << >>
              /\ scan' = 0
              /\ ret' = ret
         ELSE /\ scan' = scan + 1
              /\ UNCHANGED << pc, ret, playerResponse, tierLog, scripts >>
  /\ UNCHANGED << resolverVars, loopVars, videoId, reqs, lastOut, trackLog >>

\* ------------------------------------------------------ caption track list
\* playerResponse?.captions?.playerCaptionsTracklistRenderer?.captionTracks || []
captionTracksOf(pr) == pr.captionTracks

\* if (!captionTracks || captionTracks.length === 0) throw
\* Faulty variant: the empty-list test of fetchCaptionList is missing.
captionListEmpty_never(ct) == FALSE
captionListEmpty(ct) == Len(ct) = 0

\* captionTracks.map(...)
mapTracks(ct) ==
  [ i \in 1..Len(ct) |->
      [lang |-> ct[i].languageCode, name |-> ct[i].simpleText, url |-> ct[i].baseUrl] ]

fetchCaptionList ==
  /\ pc = "fcl"
  /\ UNCHANGED restVars
  /\ IF captionListEmpty(captionTracksOf(playerResponse))
       THEN /\ pc' = "failed"
            /\ ret' = Failure(NoCaptionTracks)
            /\ tracks' = tracks
       ELSE /\ pc' = "gbtTracks"
            /\ ret' = ret
            /\ tracks' = mapTracks(captionTracksOf(playerResponse))
  /\ UNCHANGED << resolverVars, scanVars, fetched, ti, ci, inflight, txt, thrown,
                  videoId, playerResponse, histVars >>

\* ----------------------------------------------------------- track fetcher
\* track.url + (track.url.includes('?') ? '&' : '?') + 'fmt=...', and the bare URL
withFmt(url, fmt) ==
  [path |-> url.path, sep |-> IF url.query THEN "&" ELSE "?", fmt |-> fmt]
bare(url) == [path |-> url.path, sep |-> "", fmt |-> ""]

\* Faulty variant: the first two candidates are swapped.
candidates_json3First(track) ==
  << withFmt(track.url, "fmt=json3"), withFmt(track.url, "fmt=vtt"),
     withFmt(track.url, "fmt=srv3"), bare(track.url) >>

candidates(track) ==
  << withFmt(track.url, "fmt=vtt"), withFmt(track.url, "fmt=json3"),
     withFmt(track.url, "fmt=srv3"), bare(track.url) >>

\* cues.join('\n'), and the cleaned raw text, as the text fetchCaptionText returns
joinCues(n) == [cues |-> n, raw |-> 0]
rawText(len) == [cues |-> 0, raw |-> len]

\* txt && txt.trim().length: a cue string starts with '[', so a join of at
\* least one cue is not blank.
hasText(t) == t.cues > 0 \/ t.raw > 0

\* What the body of one candidate leads to: the empty-body test, the three
\* sniffed parsers, the blind XML parse, the raw text under the cap.
\* Faulty variants: the raw text is returned without the test raw.length > 0;
\* the cap is inclusive (raw.length <= 200000).
processBody_rawUnchecked(b) ==
  IF b.blank THEN [return |-> FALSE, out |-> "blank", text |-> NoTxt]
  ELSE IF b.sniffVTT /\ b.nVTT > 0
    THEN [return |-> TRUE, out |-> "cues", text |-> joinCues(b.nVTT)]
  ELSE IF b.sniffXML /\ b.nXML > 0
    THEN [return |-> TRUE, out |-> "cues", text |-> joinCues(b.nXML)]
  ELSE IF b.sniffJSON /\ b.nJSON > 0
    THEN [return |-> TRUE, out |-> "cues", text |-> joinCues(b.nJSON)]
  ELSE IF b.nXML > 0
    THEN [return |-> TRUE, out |-> "cues", text |-> joinCues(b.nXML)]
  ELSE IF b.rawLen < RawCap
    THEN [return |-> TRUE, out |-> "raw", text |-> rawText(b.rawLen)]
  ELSE [return |-> FALSE, out |-> "nothing", text |-> NoTxt]
processBody_capInclusive(b) ==
  IF b.blank THEN [return |-> FALSE, out |-> "blank", text |-> NoTxt]
  ELSE IF b.sniffVTT /\ b.nVTT > 0
    THEN [return |-> TRUE, out |-> "cues", text |-> joinCues(b.nVTT)]
  ELSE IF b.sniffXML /\ b.nXML > 0
    THEN [return |-> TRUE, out |-> "cues", text |-> joinCues(b.nXML)]
  ELSE IF b.sniffJSON /\ b.nJSON > 0
    THEN [return |-> TRUE, out |-> "cues", text |-> joinCues(b.nJSON)]
  ELSE IF b.nXML > 0
    THEN [return |-> TRUE, out |-> "cues", text |-> joinCues(b.nXML)]
  ELSE IF b.rawLen > 0 /\ b.rawLen <= RawCap
    THEN [return |-> TRUE, out |-> "raw", text |-> rawText(b.rawLen)]
  ELSE [return |-> FALSE, out |-> "nothing", text |-> NoTxt]

processBody(b) ==
  IF b.blank THEN [return |-> FALSE, out |-> "blank", text |-> NoTxt]
  ELSE IF b.sniffVTT /\ b.nVTT > 0
    THEN [return |-> TRUE, out |-> "cues", text |-> joinCues(b.nVTT)]
  ELSE IF b.sniffXML /\ b.nXML > 0
    THEN [return |-> TRUE, out |-> "cues", text |-> joinCues(b.nXML)]
  ELSE IF b.sniffJSON /\ b.nJSON > 0
    THEN [return |-> TRUE, out |-> "cues", text |-> joinCues(b.nJSON)]
  ELSE IF b.nXML > 0
    THEN [return |-> TRUE, out |-> "cues", text |-> joinCues(b.nXML)]
  ELSE IF b.rawLen > 0 /\ b.rawLen < RawCap
    THEN [return |-> TRUE, out |-> "raw", text |-> rawText(b.rawLen)]
  ELSE [return |-> FALSE, out |-> "nothing", text |-> NoTxt]

\* history: how the fetchCaptionText call logged last ended; for a call that
\* threw, the number of candidates it had requested
closeTrack(log, o, msg, n) ==
  [log EXCEPT ![Len(log)] = [@ EXCEPT !.out = o, !.message = msg, !.tried = n]]

\* fetchCaptionText is entered for tracks[ti]: the URL test, the candidates.
fetchCaptionText ==
  /\ pc = "fct"
  /\ UNCHANGED restVars
  /\ IF ~tracks[ti].url.present
       THEN /\ thrown' = [message |-> NoTrackUrl, lang |-> tracks[ti].lang]
            /\ pc' = "catch"
            /\ ci' = ci
            /\ trackLog' = Append(trackLog,
                 [i |-> ti, out |-> "threw", message |-> NoTrackUrl, tried |-> 0])
       ELSE /\ thrown' = thrown
            /\ pc' = "cand"
            /\ ci' = 1
            /\ trackLog' = Append(trackLog,
                 [i |-> ti, out |-> "running", message |-> "", tried |-> 0])
  /\ UNCHANGED << resolverVars, scanVars, tracks, fetched, ti, inflight, txt,
                  videoId, playerResponse, ret, tierLog, reqs, lastOut >>

\* for (const candidate of candidates): the next request is issued, or the
\* candidates are exhausted and fetchCaptionText throws.
\* Faulty variant: the requests for all the candidates are issued together.
fctCandidate_allAtOnce ==
  /\ pc = "cand"
  /\ UNCHANGED restVars
  /\ IF ci > Len(candidates(tracks[ti]))
       THEN /\ thrown' = [message |-> TrackFetchFailed, lang |-> tracks[ti].lang]
            /\ pc' = "catch"
            /\ trackLog' = closeTrack(trackLog, "threw", TrackFetchFailed, Len(reqs))
            /\ UNCHANGED << inflight, reqs, lastOut >>
       ELSE /\ inflight' = inflight \cup
                   { [track |-> ti, cand |-> c] : c \in 1..Len(candidates(tracks[ti])) }
            /\ reqs' = Append(reqs, candidates(tracks[ti])[ci])
            /\ lastOut' = "inflight"
            /\ pc' = "fetchWait"
            /\ UNCHANGED << thrown, trackLog >>
  /\ UNCHANGED << resolverVars, scanVars, tracks, fetched, ti, ci, txt,
                  videoId, playerResponse, ret, tierLog >>

fctCandidate ==
  /\ pc = "cand"
  /\ UNCHANGED restVars
  /\ IF ci > Len(candidates(tracks[ti]))
       THEN /\ thrown' = [message |-> TrackFetchFailed, lang |-> tracks[ti].lang]
            /\ pc' = "catch"
            /\ trackLog' = closeTrack(trackLog, "threw", TrackFetchFailed, Len(reqs))
            /\ UNCHANGED << inflight, reqs, lastOut >>
       ELSE /\ inflight' = inflight \cup { [track |-> ti, cand |-> ci] }
            /\ reqs' = Append(reqs, candidates(tracks[ti])[ci])
            /\ lastOut' = "inflight"
            /\ pc' = "fetchWait"
            /\ UNCHANGED << thrown, trackLog >>
  /\ UNCHANGED << resolverVars, scanVars, tracks, fetched, ti, ci, txt,
                  videoId, playerResponse, ret, tierLog >>

\* await fetch(candidate) settles: rejected, a non-ok status, or ok.
FetchSettle ==
  /\ pc = "fetchWait"
  /\ UNCHANGED restVars
  /\ inflight' = inflight \ { [track |-> ti, cand |-> ci] }
  /\ \E o \in {"reject", "notok", "ok"} :
       IF o = "reject"
         THEN /\ thrown' = [message |-> TransportError, lang |-> ""]
              /\ pc' = "candCatch"
              /\ lastOut' = "threw"
              /\ ci' = ci
         ELSE IF o = "notok"
           THEN /\ ci' = ci + 1
                /\ pc' = "cand"
                /\ lastOut' = "notok"
                /\ thrown' = thrown
           ELSE /\ pc' = "textWait"
                /\ UNCHANGED << ci, lastOut, thrown >>
  /\ UNCHANGED << resolverVars, scanVars, tracks, fetched, ti, txt,
                  videoId, playerResponse, ret, tierLog, reqs, trackLog >>

\* await res.text() settles: rejected, or a body, which is sniffed and parsed.
TextSettle ==
  /\ pc = "textWait"
  /\ UNCHANGED restVars
  /\ \E rejected \in BOOLEAN, b \in Bodies :
       LET r == processBody(b) IN
         IF rejected
           THEN /\ b = BlankBody
                /\ thrown' = [message |-> TransportError, lang |-> ""]
                /\ pc' = "candCatch"
                /\ lastOut' = "threw"
                /\ UNCHANGED << ci, txt, trackLog >>
           ELSE /\ lastOut' = r.out
                /\ thrown' = thrown
                /\ IF r.return
                     THEN /\ txt' = r.text
                          /\ pc' = "gotText"
                          /\ ci' = ci
                          /\ trackLog' = closeTrack(trackLog, "returned", "", 0)
                     ELSE /\ ci' = ci + 1
                          /\ pc' = "cand"
                          /\ UNCHANGED << txt, trackLog >>
  /\ UNCHANGED << resolverVars, scanVars, tracks, fetched, ti, inflight,
                  videoId, playerResponse, ret, tierLog, reqs >>

\* catch (err) inside the candidate loop: log, try the next candidate.
\* Faulty variant: the candidate loop lets the exception out.
fctCatch_rethrows ==
  /\ pc = "candCatch"
  /\ UNCHANGED restVars
  /\ pc' = "catch"
  /\ trackLog' = closeTrack(trackLog, "threw", thrown.message, Len(reqs))
  /\ UNCHANGED << resolverVars, scanVars, tracks, fetched, ti, ci, inflight, txt,
                  thrown, videoId, playerResponse, ret, tierLog, reqs, lastOut >>

fctCatch ==
  /\ pc = "candCatch"
  /\ UNCHANGED restVars
  /\ thrown' = NoThrown
  /\ ci' = ci + 1
  /\ pc' = "cand"
  /\ UNCHANGED << resolverVars, scanVars, tracks, fetched, ti, inflight, txt,
                  videoId, playerResponse, ret, histVars >>

\* ---------------------------------------------------- transcript aggregator
\* if (!tracks || tracks.length === 0) throw; const fetched = []
gbtTracks ==
  /\ pc = "gbtTracks"
  /\ UNCHANGED restVars
  /\ IF Len(tracks) = 0
       THEN /\ pc' = "failed"
            /\ ret' = Failure(NoCaptionsFound)
            /\ UNCHANGED << fetched, ti >>
       ELSE /\ fetched' = << >>
            /\ ti' = 1
            /\ pc' = "for"
            /\ ret' = ret
  /\ UNCHANGED << resolverVars, scanVars, tracks, ci, inflight, txt, thrown,
                  videoId, playerResponse, histVars >>

\* for (const t of tracks)
gbtFor ==
  /\ pc = "for"
  /\ UNCHANGED restVars
  /\ pc' = IF ti > Len(tracks) THEN "agg" ELSE "fct"
  /\ UNCHANGED << resolverVars, scanVars, loopVars, videoId, playerResponse, ret,
                  histVars >>

\* fetched.push({ track: t, text: txt })
\* Faulty variant: unshift instead of push.
push_front(f, t, x) == << [track |-> t, text |-> x] >> \o f
push(f, t, x) == Append(f, [track |-> t, text |-> x])

\* fetchCaptionText returned: push the text unless it is blank.
gbtPush ==
  /\ pc = "gotText"
  /\ UNCHANGED restVars
  /\ fetched' = IF hasText(txt) THEN push(fetched, tracks[ti], txt) ELSE fetched
  /\ txt' = NoTxt
  /\ ti' = ti + 1
  /\ ci' = 0
  /\ pc' = "for"
  /\ reqs' = << >>
  /\ lastOut' = "none"
  /\ UNCHANGED << resolverVars, scanVars, tracks, inflight, thrown,
                  videoId, playerResponse, ret, tierLog, trackLog >>

\* catch (e) around fetchCaptionText: log, go on with the next track.
\* Faulty variant: the track loop lets the exception out.
gbtCatch_rethrows ==
  /\ pc = "catch"
  /\ UNCHANGED restVars
  /\ pc' = "failed"
  /\ ret' = Failure(thrown.message)
  /\ UNCHANGED << resolverVars, scanVars, loopVars, videoId, playerResponse, histVars >>

gbtCatch ==
  /\ pc = "catch"
  /\ UNCHANGED restVars
  /\ thrown' = NoThrown
  /\ ti' = ti + 1
  /\ ci' = 0
  /\ pc' = "for"
  /\ reqs' = << >>
  /\ lastOut' = "none"
  /\ UNCHANGED << resolverVars, scanVars, tracks, fetched, inflight, txt,
                  videoId, playerResponse, ret, tierLog, trackLog >>

\* `--- Track: ${lang} ${name ? `(${name})` : ''} ---\n${text}`, joined by a
\* blank line: the sections of combined, in order.
section(f) == [lang |-> f.track.lang, name |-> f.track.name, text |-> f.text]
combined(f) == [ i \in 1..Len(f) |-> section(f[i]) ]

\* if (fetched.length === 0) throw; return { videoId, tracks, combined }
\* Faulty variants: no test of fetched.length; tracks taken from fetched.
aggregate_noCheck(v, tr, f) ==
  [kind |-> "result", videoId |-> v, tracks |-> tr, combined |-> combined(f)]
aggregate_fetchedTracks(v, tr, f) ==
  IF Len(f) = 0 THEN Failure(NoCaptionsFetched)
  ELSE [kind |-> "result", videoId |-> v,
        tracks |-> [ i \in 1..Len(f) |-> f[i].track ], combined |-> combined(f)]
aggregate(v, tr, f) ==
  IF Len(f) = 0 THEN Failure(NoCaptionsFetched)
  ELSE [kind |-> "result", videoId |-> v, tracks |-> tr, combined |-> combined(f)]

gbtAggregate ==
  /\ pc = "agg"
  /\ UNCHANGED restVars
  /\ ret' = aggregate(videoId, tracks, fetched)
  /\ pc' = IF ret'.kind = "error" THEN "failed" ELSE "done"
  /\ UNCHANGED << resolverVars, scanVars, loopVars, videoId, playerResponse, histVars >>

\* -------------------------------------------------------- messaging endpoint
\* msg.action of an inbound runtime message
MsgActions == {"getTranscript", "other"}

\* chrome.runtime.onMessage listener: a getTranscript request calls
\* getBestTranscript and returns true, which keeps the channel open; for any
\* other message the listener returns undefined.
runtimeOnMessage ==
  /\ pc = "listening"
  /\ \E action \in MsgActions :
       IF action = "getTranscript"
         THEN pc' = "idle" /\ channel' = "open"
         ELSE pc' = "ignored" /\ channel' = channel
  /\ UNCHANGED << resolverVars, scanVars, loopVars, histVars, videoId, playerResponse,
                  ret, responses, funVars, popupVars >>

\* err && err.message ? err.message : String(err)
errorText(r) == r.message

\* The value handed to sendResponse by .then and by .catch.
response(r) ==
  IF r.kind = "result" THEN [success |-> TRUE, result |-> r]
  ELSE [success |-> FALSE, error |-> errorText(r)]

\* The promise of getBestTranscript has settled: .then or .catch calls
\* sendResponse, which answers the request and releases the channel.
\* Faulty variant: no .catch, a rejection is left unhandled and nothing is sent.
sendResponse_thenOnly ==
  /\ pc \in {"done", "failed"}
  /\ channel = "open"
  /\ channel' = "closed"
  /\ responses' = IF ret.kind = "result" THEN Append(responses, response(ret))
                  ELSE responses
  /\ UNCHANGED << pipelineVars, funVars, popupVars >>

sendResponse ==
  /\ pc \in {"done", "failed"}
  /\ channel = "open"
  /\ channel' = "closed"
  /\ responses' = Append(responses, response(ret))
  /\ UNCHANGED << pipelineVars, funVars, popupVars >>

\* ------------------------------------------------------------ specification
Next ==
  \/ runtimeOnMessage
  \/ sendResponse
  \/ getBestTranscript
  \/ gprDirect
  \/ gprInject
  \/ PostForeign
  \/ Dispatch
  \/ Timeout
  \/ gprRelayDone
  \/ gprScan
  \/ fetchCaptionList
  \/ gbtTracks
  \/ gbtFor
  \/ fetchCaptionText
  \/ fctCandidate
  \/ FetchSettle
  \/ TextSettle
  \/ fctCatch
  \/ gbtPush
  \/ gbtCatch
  \/ gbtAggregate

Spec == Init /\ [][Next]_vars

\* The event loop runs a ready continuation, timers fire, and every network
\* request settles.
Program ==
  \/ runtimeOnMessage \/ getBestTranscript \/ gprDirect \/ gprInject \/ gprRelayDone
  \/ gprScan \/ fetchCaptionList \/ gbtTracks \/ gbtFor \/ fetchCaptionText
  \/ fctCandidate \/ fctCatch \/ gbtPush \/ gbtCatch \/ gbtAggregate \/ sendResponse
Fairness ==
  /\ WF_vars(Program)
  /\ WF_vars(Timeout)
  /\ WF_vars(FetchSettle)
  /\ WF_vars(TextSettle)
LiveSpec == Spec /\ Fairness

\* ------------------------------------------------- the brace-depth extractor
\* A script text, character by character: "v" is an occurrence of the variable's
\* name, "q" a double quote, "x" any character that is none of the others.
Chars == {"v", "{", "}", "q", "x"}
Texts == SeqsUpTo(Chars, MaxText)
Null  == [found |-> FALSE, text |-> << >>]

\* text.indexOf(c, from), 1-based; 0 when there is none
RECURSIVE indexOf(_, _, _)
indexOf(text, c, from) ==
  IF from > Len(text) THEN 0
  ELSE IF text[from] = c THEN from
  ELSE indexOf(text, c, from + 1)

\* text.slice(a, b + 1)
slice(text, a, b) == [found |-> TRUE, text |-> SubSeq(text, a, b)]

\* The for loop of extractJSONFromScriptText from position i with depth so far.
RECURSIVE balance(_, _, _, _)
balance(text, braceStart, i, depth) ==
  IF i > Len(text) THEN Null
  ELSE IF text[i] = "{" THEN balance(text, braceStart, i + 1, depth + 1)
  ELSE IF text[i] = "}"
    THEN IF depth - 1 = 0 THEN slice(text, braceStart, i)
         ELSE balance(text, braceStart, i + 1, depth - 1)
  ELSE balance(text, braceStart, i + 1, depth)

extractJSONFromScriptText(text, varName) ==
  LET idx == indexOf(text, varName, 1) IN
    IF idx = 0 THEN Null
    ELSE LET braceStart == indexOf(text, "{", idx) IN
      IF braceStart = 0 THEN Null
      ELSE balance(text, braceStart, braceStart, 0)

InitExtract ==
  /\ PipelineInit /\ EndpointInit /\ PopupInit
  /\ arg \in { [fn |-> "extractJSONFromScriptText", text |-> t] : t \in Texts }
  /\ result = NoResult

callExtract ==
  /\ arg.fn = "extractJSONFromScriptText"
  /\ ~result.called
  /\ result' = [called |-> TRUE, value |-> extractJSONFromScriptText(arg.text, "v")]
  /\ UNCHANGED << pipelineVars, endpointVars, popupVars, arg >>

NextExtract == callExtract
SpecExtract == InitExtract /\ [][NextExtract]_vars

\* ---------------------------------------------------------- the VTT parser
\* A WebVTT text is a sequence of items: a carriage return, a line feed, the
\* header word, a letter of text, or a timing "start --> end" of which only
\* the start timestamp, a list of numbers separated by colons, matters here.
CR == [k |-> "cr"]
LF == [k |-> "lf"]
Header == [k |-> "WEBVTT"]
Letter == [k |-> "x"]
Timing(ts) == [k |-> "-->", ts |-> ts]

\* Start times in seconds, and the two timestamp forms HH:MM:SS and MM:SS.
StartSecs == {1, 62, 3723}
timestamp(sec, form) ==
  IF form = 3 THEN << sec \div 3600, (sec % 3600) \div 60, sec % 60 >>
  ELSE << sec \div 60, sec % 60 >>

\* The three line terminators of WebVTT.
Eols == { << LF >>, << CR, LF >>, << CR >> }

\* Well-formed cues: an optional identifier line, the timing line, one or more
\* text lines.
VttCues ==
  { c \in [ id : BOOLEAN, sec : StartSecs, form : {2, 3}, lines : 1..MaxPayload ] :
      c.form = 2 => c.sec < 3600 }
VttDocs == [ eol : Eols, cues : SeqsUpTo(VttCues, MaxVttCues) ]

RECURSIVE repeat(_, _)
repeat(s, n) == IF n = 0 THEN << >> ELSE s \o repeat(s, n - 1)

cueBlock(c, eol) ==
  (IF c.id THEN << Letter >> \o eol ELSE << >>)
    \o << Timing(timestamp(c.sec, c.form)) >> \o eol
    \o repeat(<< Letter >> \o eol, c.lines)

\* The document as text: the header line, then each cue block after a blank line.
RECURSIVE cueBlocks(_, _, _)
cueBlocks(cues, eol, i) ==
  IF i > Len(cues) THEN << >>
  ELSE eol \o cueBlock(cues[i], eol) \o cueBlocks(cues, eol, i + 1)
render(d) == << Header >> \o d.eol \o cueBlocks(d.cues, d.eol, 1)

\* text.replace(/\r/g, '')
removeCR(text) == SelectSeq(text, LAMBDA c : c.k # "cr")

\* .split('\n')
RECURSIVE split(_, _, _)
split(text, i, cur) ==
  IF i > Len(text) THEN << cur >>
  ELSE IF text[i].k = "lf" THEN << cur >> \o split(text, i + 1, << >>)
  ELSE split(text, i + 1, Append(cur, text[i]))

\* line.includes('-->')
includesArrow(line) == \E i \in 1..Len(line) : line[i].k = "-->"

\* line.split('-->')[0]: what precedes the first arrow, that is the text before
\* the first timing and that timing's start timestamp.
firstArrow(line) == CHOOSE i \in 1..Len(line) :
  line[i].k = "-->" /\ \A j \in 1..(i - 1) : line[j].k # "-->"
times0(line) == [before |-> firstArrow(line) - 1, ts |-> line[firstArrow(line)].ts]

\* vttTimeToSeconds: parseFloat of each colon-separated part; a part that
\* starts with letters is NaN, and so is the sum.
NaN == [nan |-> TRUE, sec |-> 0]
Seconds(n) == [nan |-> FALSE, sec |-> n]
vttTimeToSeconds(t) ==
  IF t.before > 0 THEN NaN
  ELSE IF Len(t.ts) = 3 THEN Seconds(t.ts[1] * 3600 + t.ts[2] * 60 + t.ts[3])
  ELSE IF Len(t.ts) = 2 THEN Seconds(t.ts[1] * 60 + t.ts[2])
  ELSE Seconds(t.ts[1])

\* The inner while: the first blank line at or after i, or the end.
RECURSIVE cueEnd(_, _)
cueEnd(lines, i) ==
  IF i > Len(lines) \/ lines[i] = << >> THEN i ELSE cueEnd(lines, i + 1)

\* The outer while from line i: the cue strings `[${start}s] ${cueText}`.
RECURSIVE cuesFrom(_, _)
cuesFrom(lines, i) ==
  IF i > Len(lines) THEN << >>
  ELSE IF includesArrow(lines[i])
    THEN LET j == cueEnd(lines, i + 1) IN
           << [ start |-> vttTimeToSeconds(times0(lines[i])),
                text  |-> SubSeq(lines, i + 1, j - 1) ] >> \o cuesFrom(lines, j)
  ELSE cuesFrom(lines, i + 1)

parseVTT(text) == cuesFrom(split(removeCR(text), 1, << >>), 1)

InitVTT ==
  /\ PipelineInit /\ EndpointInit /\ PopupInit
  /\ arg \in { [fn |-> "parseVTT", doc |-> d, text |-> render(d)] : d \in VttDocs }
  /\ result = NoResult

callParseVTT ==
  /\ arg.fn = "parseVTT"
  /\ ~result.called
  /\ result' = [called |-> TRUE, value |-> parseVTT(arg.text)]
  /\ UNCHANGED << pipelineVars, endpointVars, popupVars, arg >>

NextVTT == callParseVTT
SpecVTT == InitVTT /\ [][NextVTT]_vars

\* ------------------------------------------- one candidate's response body
InitBody ==
  /\ PipelineInit /\ EndpointInit /\ PopupInit
  /\ arg \in { [fn |-> "processBody", body |-> b] : b \in Bodies }
  /\ result = NoResult

\* The statements of the candidate loop's body that follow await res.text().
callProcessBody ==
  /\ arg.fn = "processBody"
  /\ ~result.called
  /\ result' = [called |-> TRUE, value |-> processBody(arg.body)]
  /\ UNCHANGED << pipelineVars, endpointVars, popupVars, arg >>

NextBody == callProcessBody
SpecBody == InitBody /\ [][NextBody]_vars

\* ------------------------------------------------------------------- popup
\* What chrome.tabs.query reports about the active tab.
PageKinds == {"notYoutube", "noVideoId", "video"}
NoTranscript == "No transcript found."

\* A click on the fetch button starts a run of the async handler, which
\* suspends at await chrome.tabs.query.  Runs are numbered in click order.
fetchBtnClick ==
  /\ \E i \in 1..MaxClicks :
       /\ handlers[i] = "unused"
       /\ \A j \in 1..(i - 1) : handlers[j] # "unused"
       /\ handlers' = [handlers EXCEPT ![i] = "query"]
  /\ UNCHANGED << pipelineVars, endpointVars, funVars, spinner, output, alerts >>

\* chrome.tabs.query resolved: the two page tests, then the spinner is shown,
\* the output cleared and the backend call started.
tabsQuerySettle(i) ==
  /\ handlers[i] = "query"
  /\ \E page \in PageKinds :
       IF page # "video"
         THEN /\ alerts' = alerts + 1
              /\ handlers' = [handlers EXCEPT ![i] = "end"]
              /\ UNCHANGED << spinner, output >>
         ELSE /\ spinner' = "flex"
              /\ output' = ""
              /\ handlers' = [handlers EXCEPT ![i] = "fetch"]
              /\ alerts' = alerts
  /\ UNCHANGED << pipelineVars, endpointVars, funVars >>

\* await fetch(apiUrl) settled: a rejection or a non-ok status goes through
\* catch (alert) and finally (spinner hidden); an ok response is read as JSON.
apiFetchSettle(i) ==
  /\ handlers[i] = "fetch"
  /\ \E o \in {"reject", "notok", "ok"} :
       IF o = "ok"
         THEN /\ handlers' = [handlers EXCEPT ![i] = "json"]
              /\ UNCHANGED << spinner, alerts >>
         ELSE /\ alerts' = alerts + 1
              /\ spinner' = "none"
              /\ handlers' = [handlers EXCEPT ![i] = "end"]
  /\ output' = output
  /\ UNCHANGED << pipelineVars, endpointVars, funVars >>

\* await res.json() settled: the post, or the placeholder, is displayed, or
\* the rejection is alerted; finally hides the spinner.
jsonSettle(i) ==
  /\ handlers[i] = "json"
  /\ \E o \in {"reject", "post", "nopost"} :
       /\ output' = IF o = "post" THEN "linkedin_post"
                    ELSE IF o = "nopost" THEN NoTranscript ELSE output
       /\ alerts' = IF o = "reject" THEN alerts + 1 ELSE alerts
  /\ spinner' = "none"
  /\ handlers' = [handlers EXCEPT ![i] = "end"]
  /\ UNCHANGED << pipelineVars, endpointVars, funVars >>

InitPopup == PipelineInit /\ EndpointInit /\ FunInit /\ PopupInit
NextPopup ==
  \/ fetchBtnClick
  \/ \E i \in 1..MaxClicks : tabsQuerySettle(i)
  \/ \E i \in 1..MaxClicks : apiFetchSettle(i)
  \/ \E i \in 1..MaxClicks : jsonSettle(i)
SpecPopup == InitPopup /\ [][NextPopup]_vars

\* ------------------------------------------------------------------ claims
Settled == pc \in {"done", "failed"}
IsPrefix(a, b) == Len(a) <= Len(b) /\ \A i \in 1..Len(a) : a[i] = b[i]
Occurs(x, log) == \E i \in 1..Len(log) : log[i] = x
TierStarts == {"t1", "t2", "t3"}
TierSuccesses == {"t1ok", "t2ok", "t3ok"}
Resolved == \E i \in 1..Len(tierLog) : tierLog[i] \in TierSuccesses

\* C1: for a track with a URL the candidates are requested in the order
\* fmt=vtt, fmt=json3, fmt=srv3, bare URL, each on the track's own URL; a
\* request is issued only when the one before it has been processed; and once
\* a candidate has yielded at least one cue no further candidate is requested.
C1_FormatOrder == << "fmt=vtt", "fmt=json3", "fmt=srv3", "" >>
C1_Order ==
  /\ IsPrefix([ i \in 1..Len(reqs) |-> reqs[i].fmt ], C1_FormatOrder)
  /\ \A i \in 1..Len(reqs) :
       /\ ti \in 1..Len(tracks)
       /\ tracks[ti].url.present
       /\ reqs[i].path = tracks[ti].url.path
       /\ reqs[i].sep = IF reqs[i].fmt = "" THEN ""
                        ELSE IF tracks[ti].url.query THEN "&" ELSE "?"
  /\ Cardinality(inflight) <= 1
C1_CandidateOrder ==
  /\ []C1_Order
  /\ [][ Len(reqs') > Len(reqs) =>
           /\ Len(reqs') = Len(reqs) + 1
           /\ inflight = {}
           /\ lastOut \notin {"inflight", "cues", "raw"} ]_vars
  /\ [][ lastOut = "cues" => Len(reqs') <= Len(reqs) /\ inflight' = {} ]_vars
C1_Witness ==
  /\ pc = "gotText"
  /\ lastOut = "cues"
  /\ Len(reqs) = 2
  /\ reqs[2].fmt = "fmt=json3"

\* C2: when getBestTranscript returns a result, combined has exactly one
\* section per track whose fetchCaptionText call returned, none for a track
\* whose call threw, and the sections are in the tracks' declaration order.
C2_Returned == SelectSeq(trackLog, LAMBDA e : e.out = "returned")
C2_CombinedSections ==
  ret.kind = "result" =>
    /\ Len(trackLog) = Len(ret.tracks)
    /\ \A i \in 1..Len(trackLog) : trackLog[i].i = i
    /\ Len(ret.combined) = Len(C2_Returned)
    /\ \A k \in 1..Len(ret.combined) :
         /\ ret.combined[k].lang = ret.tracks[C2_Returned[k].i].lang
         /\ ret.combined[k].name = ret.tracks[C2_Returned[k].i].name
         /\ hasText(ret.combined[k].text)
C2_Witness ==
  /\ ret.kind = "result"
  /\ Len(ret.combined) = 2
  /\ ret.combined[1].lang = "en"
  /\ ret.combined[2].lang = "fr"

\* C3: if the track list is not empty and every track's fetchCaptionText call
\* threw, getBestTranscript fails with NoCaptionsFetched; a result never has
\* an empty combined.
C3_AllFailed ==
  /\ (/\ Settled
      /\ Len(tracks) > 0
      /\ Len(trackLog) = Len(tracks)
      /\ \A i \in 1..Len(trackLog) : trackLog[i].out = "threw")
     => ret = Failure(NoCaptionsFetched)
  /\ ret.kind = "result" => Len(ret.combined) > 0
C3_Witness ==
  /\ ret = Failure(NoCaptionsFetched)
  /\ Len(trackLog) = 2
  /\ trackLog[1].message = TrackFetchFailed
  /\ trackLog[2].message = NoTrackUrl

\* C4 as stated: with an empty caption track list in the player metadata,
\* getBestTranscript fails with NoCaptionsFound before any caption fetch.
C4_EmptyList == Resolved /\ Len(captionTracksOf(playerResponse)) = 0
C4_Original ==
  (Settled /\ C4_EmptyList) =>
    /\ ret = Failure(NoCaptionsFound)
    /\ trackLog = << >>
    /\ inflight = {}

\* C4 (amended): with an empty caption track list in the player metadata,
\* getBestTranscript fails before any caption fetch is attempted, with the
\* error fetchCaptionList throws (NoCaptionTracks); NoCaptionsFound is never
\* the error of getBestTranscript.
C4_EmptyListFails ==
  /\ (C4_EmptyList /\ pc # "fcl") =>
       /\ ret = Failure(NoCaptionTracks)
       /\ trackLog = << >>
       /\ reqs = << >>
       /\ inflight = {}
  /\ ret # Failure(NoCaptionsFound)
C4_Witness ==
  /\ C4_EmptyList
  /\ pc = "failed"
  /\ ret = Failure(NoCaptionTracks)

\* C5: a fetchCaptionText call that throws, a track without URL included,
\* never aborts the aggregation: the catch goes on with the next track, every
\* declared track is attempted once, in order, and no track-level error is
\* the error of getBestTranscript.
C5_AllAttempted ==
  /\ \A i \in 1..Len(trackLog) : trackLog[i].i = i
  /\ (Settled /\ Len(tracks) > 0) => Len(trackLog) = Len(tracks)
  /\ ret.kind = "error" => ret.message \notin {NoTrackUrl, TrackFetchFailed, TransportError}
C5_NoAbort ==
  /\ []C5_AllAttempted
  /\ [][ pc = "catch" => pc' = "for" /\ ti' = ti + 1 /\ ret' = ret ]_vars
C5_Witness ==
  /\ Settled
  /\ Len(trackLog) = 2
  /\ trackLog[1].out = "threw"
  /\ trackLog[1].message = NoTrackUrl
  /\ trackLog[2].out = "returned"

\* C6: a result's tracks lists every track the player metadata declares, in
\* order, also the tracks that have no section in combined.
C6_TracksComplete ==
  ret.kind = "result" =>
    LET ct == captionTracksOf(playerResponse) IN
      /\ Len(ret.tracks) = Len(ct)
      /\ \A i \in 1..Len(ct) :
           /\ ret.tracks[i].lang = ct[i].languageCode
           /\ ret.tracks[i].name = ct[i].simpleText
           /\ ret.tracks[i].url = ct[i].baseUrl
C6_Witness ==
  /\ ret.kind = "result"
  /\ Len(ret.tracks) = 2
  /\ ret.tracks[1].lang = "en"
  /\ ret.tracks[2].lang = "fr"
  /\ Len(ret.combined) = 1
  /\ ret.combined[1].lang = "en"
  /\ trackLog[2].message = TrackFetchFailed

\* C7: the resolver's tiers start in the order 1, 2, 3, each at most once; a
\* tier starts only after every earlier tier has failed; nothing starts after
\* a tier has succeeded; the resolver fails with MetadataNotFound only when
\* all three tiers have failed.
C7_Legal ==
  { << "t1", "t1ok" >>,
    << "t1", "t1fail", "t2", "t2ok" >>,
    << "t1", "t1fail", "t2", "t2fail", "t3", "t3ok" >>,
    << "t1", "t1fail", "t2", "t2fail", "t3", "t3fail" >> }
C7_TierOrder ==
  /\ \E full \in C7_Legal : IsPrefix(tierLog, full)
  /\ \A i \in 1..Len(tierLog) : tierLog[i] \in TierSuccesses => i = Len(tierLog)
  /\ ret = Failure(MetadataNotFound) =>
       Occurs("t1fail", tierLog) /\ Occurs("t2fail", tierLog) /\ Occurs("t3fail", tierLog)
  /\ Occurs("t3fail", tierLog) => ret = Failure(MetadataNotFound)
  /\ Occurs("t2ok", tierLog) => injected = "payload"
  /\ Occurs("t2fail", tierLog) => injected = "null"
C7_Witness ==
  /\ ret = Failure(MetadataNotFound)
  /\ tierLog = << "t1", "t1fail", "t2", "t2fail", "t3", "t3fail" >>

\* C8: when the 1000 ms timer fires and no tagged message has been received,
\* the tier-2 wait resolves to "not found" (null), no error is raised by it,
\* and tier 3 is tried next.
C8_TimeoutNotFound ==
  /\ timer.state # "none" => timer.ms = 1000
  /\ settled = "timeout" =>
       /\ timer.state = "fired"
       /\ injected = "null"
       /\ pc # "relayWait"
       /\ pc # "relayDone" => Occurs("t2fail", tierLog) /\ Occurs("t3", tierLog)
       /\ ret.kind = "error" => Occurs("t3", tierLog)
C8_Witness ==
  /\ settled = "timeout"
  /\ pc = "scan"
  /\ ret.kind = "pending"

\* C9 as stated: once the race has settled no listener remains registered
\* and no timer remains pending.
C9_Original ==
  settled \in {"message", "timeout"} => ~listener /\ timer.state # "pending"

\* C9 (amended): the first of "message received" and "timer fired" settles
\* the wait and nothing later changes its value; the listener is removed by
\* whichever of the two settles it; the timer is not cancelled: when the
\* message wins it stays pending, and when it fires later it changes nothing
\* but itself.
C9_Race ==
  /\ settled \in {"message", "timeout"} => ~listener
  /\ settled = "timeout" => timer.state = "fired"
  /\ settled = "pending" => listener /\ timer.state = "pending" /\ pc = "relayWait"
C9_RaceSettles ==
  /\ []C9_Race
  /\ [][ (settled = "message" \/ settled = "timeout") =>
           settled' = settled /\ injected' = injected ]_vars
  /\ [][ (settled = "pending" /\ settled' = "message") =>
           timer' = timer /\ timer.state = "pending" ]_vars
  /\ [][ (settled = "message" /\ timer.state = "pending" /\ timer'.state = "fired") =>
           UNCHANGED << pc, ret, playerResponse, tracks, fetched, tierLog >> ]_vars
C9_Witness ==
  /\ settled = "message"
  /\ ~listener
  /\ timer.state = "pending"

\* C10: an exception raised while one candidate is processed is absorbed by
\* the candidate loop, which goes on with the next candidate; after the loop
\* has started fetchCaptionText throws only TrackFetchFailed, and only when
\* all four candidates have been requested and none gave a usable result.
C10_Thrown ==
  /\ \A i \in 1..Len(trackLog) :
       trackLog[i].out = "threw" =>
         \/ trackLog[i].message = NoTrackUrl /\ trackLog[i].tried = 0
         \/ trackLog[i].message = TrackFetchFailed /\ trackLog[i].tried = 4
  /\ pc = "catch" =>
       \/ thrown.message = NoTrackUrl /\ reqs = << >>
       \/ thrown.message = TrackFetchFailed /\ Len(reqs) = 4
                                            /\ lastOut \notin {"inflight", "cues", "raw"}
C10_Absorbed ==
  /\ []C10_Thrown
  /\ [][ pc = "candCatch" => pc' = "cand" /\ ci' = ci + 1 /\ ret' = ret ]_vars
C10_Witness ==
  /\ pc = "catch"
  /\ thrown.message = TrackFetchFailed
  /\ lastOut = "threw"

\* C11: a getTranscript request keeps its channel open while the aggregation
\* runs, and is answered exactly once: { success: true, result } when the
\* aggregation succeeded, { success: false, error } with the error's message
\* when it failed; no failure is left without a response.  Under LiveSpec the
\* response is eventually sent.
C11_Errors == { NoVideoId, MetadataNotFound, NoCaptionTracks, NoCaptionsFetched }
C11_Channel ==
  /\ Len(responses) <= 1
  /\ channel = "open" => responses = << >>
  /\ (pc \notin {"listening", "ignored"} /\ ~Settled) => channel = "open"
  /\ channel = "closed" =>
       /\ Settled
       /\ ret.kind = "result" => responses = << [success |-> TRUE, result |-> ret] >>
       /\ ret.kind = "error" =>
            /\ responses = << [success |-> FALSE, error |-> ret.message] >>
            /\ ret.message \in C11_Errors
C11_OneResponse == []C11_Channel /\ (channel = "open" ~> Len(responses) = 1)
C11_Witness ==
  /\ channel = "closed"
  /\ responses = << [success |-> FALSE, error |-> MetadataNotFound] >>

\* C12: for a text in which the variable's name is followed by an object
\* literal, the extractor returns exactly that literal, closed at the brace
\* that matches its opening brace, where a brace inside a string value of the
\* literal neither opens nor closes anything.
\* C12_Literal is the literal that follows the name, read with string values
\* taken into account.
RECURSIVE C12_Close(_, _, _, _)
C12_Close(text, i, depth, inString) ==
  IF i > Len(text) THEN 0
  ELSE IF text[i] = "q" THEN C12_Close(text, i + 1, depth, ~inString)
  ELSE IF inString THEN C12_Close(text, i + 1, depth, inString)
  ELSE IF text[i] = "{" THEN C12_Close(text, i + 1, depth + 1, inString)
  ELSE IF text[i] = "}"
    THEN IF depth = 1 THEN i ELSE C12_Close(text, i + 1, depth - 1, inString)
  ELSE C12_Close(text, i + 1, depth, inString)
C12_Literal(text) ==
  LET idx == indexOf(text, "v", 1)
      open == IF idx = 0 THEN 0 ELSE indexOf(text, "{", idx)
      close == IF open = 0 THEN 0 ELSE C12_Close(text, open, 0, FALSE)
  IN  IF close = 0 THEN Null ELSE [found |-> TRUE, text |-> SubSeq(text, open, close)]
C12_ExtractsLiteral ==
  (result.called /\ C12_Literal(arg.text).found) => result.value = C12_Literal(arg.text)

\* C13: the resolver leaves no script element behind: whenever other code can
\* run (the content script is suspended), and from the moment the resolver has
\* settled, the document holds no element that the content script added; the
\* fragment is appended and removed within one synchronous block.
C13_ResolverOver == Resolved \/ Settled \/ pc \in {"relayDone", "scan"}
C13_DomRestored == (Suspended \/ C13_ResolverOver) => dom = << >>
C13_Witness ==
  /\ pc = "relayWait"
  /\ tierLog = << "t1", "t1fail", "t2" >>
  /\ inbox = << Message("window", TRUE, "payload") >>
  /\ dom = << >>

\* C14: the tracks are handed to the track fetcher one at a time, in the order
\* of the track list; at most one caption request is in flight, it belongs to
\* the track and candidate being processed, and every earlier track's call of
\* the fetcher has ended (returned or thrown) before it is issued.
C14_Sequential ==
  /\ Cardinality(inflight) <= 1
  /\ \A f \in inflight : pc = "fetchWait" /\ f.track = ti /\ f.cand = ci
  /\ \A k \in 1..Len(trackLog) :
       /\ trackLog[k].i = k
       /\ k < Len(trackLog) => trackLog[k].out \in {"returned", "threw"}
  /\ inflight # {} => Len(trackLog) = ti /\ trackLog[ti].out = "running"
C14_Witness ==
  /\ inflight = { [track |-> 2, cand |-> 1] }
  /\ Len(trackLog) = 2
  /\ trackLog[1].out = "threw"
  /\ trackLog[1].tried = 4

\* C15: for a non-empty body, when no sniffed parser produced a cue the XML
\* parser is applied blindly and its cues are returned if there are any; when
\* it produces none either, the cleaned raw text is returned exactly when it is
\* non-empty and shorter than the cap; only when nothing is returned does the
\* loop go on to the next candidate.
C15_SniffedCues(b) ==
  \/ b.sniffVTT /\ b.nVTT > 0
  \/ b.sniffXML /\ b.nXML > 0
  \/ b.sniffJSON /\ b.nJSON > 0
C15_Fallbacks ==
  (result.called /\ ~arg.body.blank /\ ~C15_SniffedCues(arg.body)) =>
    LET b == arg.body
        r == result.value
    IN  /\ b.nXML > 0 => r.return /\ r.text = [cues |-> b.nXML, raw |-> 0]
        /\ b.nXML = 0 =>
             /\ r.return <=> (b.rawLen > 0 /\ b.rawLen < RawCap)
             /\ r.return => r.text = [cues |-> 0, raw |-> b.rawLen]
        /\ r.out = "nothing" <=> ~r.return
C15_Witness ==
  /\ result.called
  /\ arg.body.sniffJSON /\ arg.body.nJSON = 0 /\ arg.body.nXML = 0
  /\ arg.body.rawLen = RawCap
  /\ ~result.value.return

\* C16: the popup's spinner is visible exactly while a backend call started by
\* a click on the fetch button is in flight (the fetch, or the reading of its
\* response), whatever clicks and completions came before.
C16_CallInFlight == \E i \in 1..MaxClicks : handlers[i] \in {"fetch", "json"}
C16_SpinnerTracksCall == (spinner = "flex") <=> C16_CallInFlight

\* C17: for a valid WebVTT document with N well-formed cues, parseVTT returns
\* N cue strings, the k-th one carrying the start time of the k-th cue.
C17_OneStringPerCue ==
  result.called =>
    /\ Len(result.value) = Len(arg.doc.cues)
    /\ \A k \in 1..Len(result.value) :
         k <= Len(arg.doc.cues) => result.value[k].start = Seconds(arg.doc.cues[k].sec)

\* C18: when every request settles, a call of getBestTranscript settles: while
\* the resolver waits in tier 2 its timer is pending, the wait ends only by a
\* tagged message or by the timer, no track is asked for more than its four
\* candidates, and under LiveSpec every call reaches done or failed.
C18_Bounded ==
  /\ pc = "relayWait" => timer.state = "pending" /\ timer.ms = TimeoutMs
  /\ Len(reqs) <= 4
  /\ Len(trackLog) <= Len(tracks)
C18_Settles ==
  /\ []C18_Bounded
  /\ [][ (pc = "relayWait" /\ pc' # "relayWait") =>
            (settled' = "message" \/ settled' = "timeout") ]_vars
  /\ (pc = "idle" ~> Settled)
C18_Witness ==
  /\ Settled
  /\ settled = "timeout"
  /\ ret = Failure(NoCaptionsFetched)
  /\ Len(trackLog) = MaxTracks
  /\ \A k \in 1..Len(trackLog) : trackLog[k].tried = 4

\* C19: the tier-2 listener is registered whenever a message is queued for it
\* and throughout the wait; the wait is ended by a message only if that message
\* comes from the page window and carries the marker; the delivery of any
\* other message leaves the listener registered and the wait pending; the
\* delivery of a marked message without payload ends the wait at once, the
\* timer still pending, and the resolver goes on as not found.
C19_Marked(m) == m.source = "window" /\ m.tagged
C19_Delivery == listener /\ inbox # << >> /\ inbox' # inbox /\ timer' = timer
               /\ Len(inbox') < Len(inbox)
C19_Registered ==
  /\ inbox # << >> => listener
  /\ pc = "relayWait" => listener /\ settled = "pending"
  /\ (settled = "message" /\ injected = "null" /\ pc # "relayDone") =>
       Occurs("t2fail", tierLog)
C19_Filter ==
  /\ []C19_Registered
  /\ [][ (settled = "pending" /\ settled' = "message") =>
            (inbox # << >> /\ C19_Marked(Head(inbox))) ]_vars
  /\ [][ (C19_Delivery /\ ~C19_Marked(Head(inbox))) =>
            (listener' /\ settled' = settled /\ pc' = pc /\ inbox' = Tail(inbox)) ]_vars
  /\ [][ (C19_Delivery /\ pc = "relayWait"
             /\ Head(inbox) = Message("window", TRUE, "null")) =>
            (settled' = "message" /\ injected' = "null" /\ ~listener'
               /\ pc' = "relayDone" /\ timer'.state = "pending") ]_vars
C19_Witness ==
  /\ pc = "relayDone"
  /\ settled = "message"
  /\ injected = "null"
  /\ timer.state = "pending"
  /\ ~listener

\* C20: fetchCaptionText never returns a blank text: what it returns is a join
\* of at least one cue, or a raw text of at least one character below the cap;
\* so the aggregator pushes a section for every call that returned, and every
\* track that has been processed either has its section or threw.
C20_Closed(o) == Len(SelectSeq(trackLog, LAMBDA e : e.out = o))
C20_NonBlank ==
  /\ pc = "gotText" =>
       \/ txt.cues >= 1 /\ txt.raw = 0
       \/ txt.cues = 0 /\ txt.raw >= 1 /\ txt.raw < RawCap
  /\ \A i \in 1..Len(fetched) : fetched[i].text.cues + fetched[i].text.raw >= 1
  /\ pc \in {"for", "agg", "done"} =>
       /\ Len(fetched) = C20_Closed("returned")
       /\ Len(fetched) + C20_Closed("threw") = Len(trackLog)
C20_NeverBlank ==
  /\ []C20_NonBlank
  /\ [][ pc = "gotText" => fetched' = Append(fetched, [track |-> tracks[ti], text |-> txt]) ]_vars
C20_Witness ==
  /\ pc = "for"
  /\ Len(trackLog) = 2
  /\ trackLog[1].out = "threw"
  /\ Len(fetched) = 1
  /\ fetched[1].text = [cues |-> 0, raw |-> 1]

====
